---- MODULE Spec2Model ----
(***************************************************************************)
(* A model of the periodic-investment analyzer of yahoo_stock_dl           *)
(* (src/MIP_analyzer/stock_analyzer.py and its GUI caller).                *)
(*                                                                         *)
(* A pandas Timestamp is modelled as what it is internally: an integer     *)
(* count of time units since 1970-01-01 00:00 (here minutes; the price     *)
(* files carry no finer resolution than that).  Adding a timedelta is      *)
(* integer addition; Timestamp.replace decomposes the instant into its     *)
(* calendar fields, substitutes the given ones, validates the date and     *)
(* recomposes it.                                                          *)
(*                                                                         *)
(* Floating-point numbers are modelled as exact rationals (num/den in      *)
(* lowest terms) extended with NaN, the value numpy returns for 0.0/0.     *)
(***************************************************************************)
EXTENDS Integers, Sequences, FiniteSets, TLC

VARIABLES
    data,            \* the loaded price series: sequence of [Date, Close]
    start,           \* simulate_investment's start argument
    end,             \* simulate_investment's end argument
    amount,          \* simulate_investment's amount argument (a rational)
    frequency,       \* simulate_investment's frequency argument
    commission_rate, \* self.commission_rate (a rational)
    current,         \* the loop cursor `current`
    investments,     \* the list `investments`
    result,          \* what simulate_investment returned or raised
    trail,           \* history: the cursor values the loop has stepped from
    granularity,     \* what detect_data_granularity returned
    base_strategies, \* run: the list `base_strategies`
    strategies,      \* run: the list `strategies`
    results,         \* run: the list `results`
    summary,         \* run: the printed conclusion, or the exception raised
    sims,            \* the locals of simulate_investment calls in progress
    gui,             \* the download window: buttons, form and result tracking
    workers,         \* the DownloadWorker threads created so far
    pc               \* position in the modelled operation

\* the variables of run / run_analysis only
runVars == <<base_strategies, strategies, results, summary>>

\* the variables of interleaved simulations and of the download window
restVars == <<sims, gui, workers>>

vars == <<data, start, end, amount, frequency, commission_rate,
          current, investments, result, trail, granularity, runVars, restVars,
          pc>>

(***************************************************************************)
(* Bounds of the model.                                                    *)
(***************************************************************************)
FirstYear == 2023
LastYear == 2025
MaxSteps == 2
MaxLen == 3
GridMax == 3
MaxInvest == 4
MaxDeltas == 3
MaxRunGaps == 2
MaxTail == 2
MaxListLen == 17
MaxResults == 4
MaxWorkers == 3
MaxSymbols == 2

(***************************************************************************)
(* Calendar arithmetic of datetime / pandas.Timestamp.                     *)
(***************************************************************************)
MinutesPerDay == 24 * 60

IsLeap(y) == (y % 4 = 0) /\ ((y % 100 # 0) \/ (y % 400 = 0))

DaysInMonth(y, m) ==
    IF m = 2 THEN (IF IsLeap(y) THEN 29 ELSE 28)
    ELSE IF m \in {4, 6, 9, 11} THEN 30 ELSE 31

LeapsBefore(y) == ((y - 1) \div 4) - ((y - 1) \div 100) + ((y - 1) \div 400)

\* days from 1970-01-01 to January 1st of year y
DaysBeforeYear(y) == 365 * (y - 1970) + LeapsBefore(y) - LeapsBefore(1970)

RECURSIVE DaysBeforeMonth(_, _)
DaysBeforeMonth(y, m) ==
    IF m = 1 THEN 0 ELSE DaysBeforeMonth(y, m - 1) + DaysInMonth(y, m - 1)

\* Timestamp(year, month, day) + minute of the day, for a valid date
Timestamp(y, m, d, minute) ==
    (DaysBeforeYear(y) + DaysBeforeMonth(y, m) + (d - 1)) * MinutesPerDay + minute

DayNumber(t) == t \div MinutesPerDay

YearOf(t) ==
    LET n == DayNumber(t)
    IN  CHOOSE y \in (1970 + (n \div 366))..(1970 + (n \div 365)) :
            DaysBeforeYear(y) <= n /\ n < DaysBeforeYear(y + 1)

MonthOf(t) ==
    LET y == YearOf(t)
        n == DayNumber(t) - DaysBeforeYear(y)
    IN  CHOOSE m \in 1..12 :
            DaysBeforeMonth(y, m) <= n /\ n < DaysBeforeMonth(y, m) + DaysInMonth(y, m)

DayOf(t) ==
    LET y == YearOf(t)
    IN  DayNumber(t) - DaysBeforeYear(y) - DaysBeforeMonth(y, MonthOf(t)) + 1

MinuteOfDay(t) == t % MinutesPerDay

\* a variant that resets the time of day to midnight
ReplaceAtMidnight(t, y, m, d) ==
    IF d <= DaysInMonth(y, m)
    THEN [ok |-> TRUE, value |-> Timestamp(y, m, d, 0)]
    ELSE [ok |-> FALSE, value |-> t]

\* Timestamp.replace(year=y, month=m, day=d): the other fields are kept; an
\* invalid calendar date raises ValueError.
Replace(t, y, m, d) ==
    IF d <= DaysInMonth(y, m)
    THEN [ok |-> TRUE, value |-> Timestamp(y, m, d, MinuteOfDay(t))]
    ELSE [ok |-> FALSE, value |-> t]

\* try: <first> except ValueError: <second>
TryExcept(first, second) == IF first.ok THEN first.value ELSE second.value

(***************************************************************************)
(* The cursor step of simulate_investment (the if/elif chain).             *)
(***************************************************************************)
FixedFrequencies ==
    {"halfhourly", "hourly", "3hourly", "6hourly", "12hourly",
     "daily", "3daily", "weekly"}

CalendarFrequencies == {"monthly", "quarterly", "semiannually", "yearly"}

KnownFrequencies == FixedFrequencies \cup CalendarFrequencies

\* a frequency string that no branch of the chain matches
UnknownFrequency == "biweekly"

Frequencies == KnownFrequencies \cup {UnknownFrequency}

\* a variant that falls back to the last day of the target month
MonthlyStepLastDay(t) ==
    LET y == YearOf(t)
        m == MonthOf(t)
        d == DayOf(t)
    IN  TryExcept(
            IF m < 12 THEN Replace(t, y, m + 1, d) ELSE Replace(t, y + 1, 1, d),
            IF m < 12 THEN Replace(t, y, m + 1, DaysInMonth(y, m + 1))
                      ELSE Replace(t, y + 1, 1, 1))

MonthlyStep(t) ==
    LET y == YearOf(t)
        m == MonthOf(t)
        d == DayOf(t)
    IN  TryExcept(
            IF m < 12 THEN Replace(t, y, m + 1, d) ELSE Replace(t, y + 1, 1, d),
            IF m < 12 THEN Replace(t, y, m + 1, 1) ELSE Replace(t, y + 1, 1, 1))

\* a variant whose fallback forgets to carry the year
MonthsStepNoCarry(t, k) ==
    LET y == YearOf(t)
        d == DayOf(t)
        new_month == MonthOf(t) + k
    IN  TryExcept(
            IF new_month > 12 THEN Replace(t, y + 1, new_month - 12, d)
                              ELSE Replace(t, y, new_month, d),
            IF new_month > 12 THEN Replace(t, y, new_month - 12, 1)
                              ELSE Replace(t, y, new_month, 1))

\* the quarterly (k = 3) and semiannually (k = 6) branches
MonthsStep(t, k) ==
    LET y == YearOf(t)
        d == DayOf(t)
        new_month == MonthOf(t) + k
    IN  TryExcept(
            IF new_month > 12 THEN Replace(t, y + 1, new_month - 12, d)
                              ELSE Replace(t, y, new_month, d),
            IF new_month > 12 THEN Replace(t, y + 1, new_month - 12, 1)
                              ELSE Replace(t, y, new_month, 1))

\* a variant that falls back to 28 February
YearlyStepDay28(t) ==
    LET y == YearOf(t)
        m == MonthOf(t)
    IN  TryExcept(Replace(t, y + 1, m, DayOf(t)), Replace(t, y + 1, m, 28))

YearlyStep(t) ==
    LET y == YearOf(t)
        m == MonthOf(t)
    IN  TryExcept(Replace(t, y + 1, m, DayOf(t)), Replace(t, y + 1, m, 1))

\* a variant whose 3daily branch adds hours=3 instead of days=3
TimedeltaMinutesHours3(freq) ==
    IF freq = "halfhourly" THEN 30
    ELSE IF freq = "hourly" THEN 60
    ELSE IF freq = "3hourly" THEN 3 * 60
    ELSE IF freq = "6hourly" THEN 6 * 60
    ELSE IF freq = "12hourly" THEN 12 * 60
    ELSE IF freq = "daily" THEN MinutesPerDay
    ELSE IF freq = "3daily" THEN 3 * 60
    ELSE 7 * MinutesPerDay

TimedeltaMinutes(freq) ==
    IF freq = "halfhourly" THEN 30
    ELSE IF freq = "hourly" THEN 60
    ELSE IF freq = "3hourly" THEN 3 * 60
    ELSE IF freq = "6hourly" THEN 6 * 60
    ELSE IF freq = "12hourly" THEN 12 * 60
    ELSE IF freq = "daily" THEN MinutesPerDay
    ELSE IF freq = "3daily" THEN 3 * MinutesPerDay
    ELSE 7 * MinutesPerDay

\* a variant whose chain has no yearly branch
AdvanceCursorWithoutYearly(t, freq) ==
    IF freq \in FixedFrequencies THEN t + TimedeltaMinutes(freq)
    ELSE IF freq = "monthly" THEN MonthlyStep(t)
    ELSE IF freq = "quarterly" THEN MonthsStep(t, 3)
    ELSE IF freq = "semiannually" THEN MonthsStep(t, 6)
    ELSE t

AdvanceCursor(t, freq) ==
    IF freq \in FixedFrequencies THEN t + TimedeltaMinutes(freq)
    ELSE IF freq = "monthly" THEN MonthlyStep(t)
    ELSE IF freq = "quarterly" THEN MonthsStep(t, 3)
    ELSE IF freq = "semiannually" THEN MonthsStep(t, 6)
    ELSE IF freq = "yearly" THEN YearlyStep(t)
    ELSE t

(***************************************************************************)
(* Numbers.  A float is a rational [num, den] in lowest terms with         *)
(* den > 0; den = 0 stands for the non-finite values of numpy division:    *)
(* NaN (num = 0) and +-Infinity (num = 1, -1).                             *)
(***************************************************************************)
Abs(n) == IF n < 0 THEN -n ELSE n

\* Each operation below takes its operands as values: a \in {x} stands for
\* the value of x, computed once.
RECURSIVE GCD(_, _)
GCD(a, b) ==
    CHOOSE r \in {IF n = 0 THEN m ELSE GCD(n, m % n) : m \in {a}, n \in {b}} : TRUE

Rat(n, d) ==
    CHOOSE r \in {LET g == GCD(Abs(m), Abs(e))
                      sgn == IF e < 0 THEN -1 ELSE 1
                  IN  [num |-> sgn * (m \div g), den |-> sgn * (e \div g)] :
                     m \in {n}, e \in {d}} : TRUE

NaN == [num |-> 0, den |-> 0]
Infinity(sign) == [num |-> sign, den |-> 0]
IsFinite(x) == x.den # 0
IsNaN(x) == x.den = 0 /\ x.num = 0

Zero == Rat(0, 1)
One == Rat(1, 1)
FromInt(n) == Rat(n, 1)

\* finite operands; the common denominator is the least common multiple
Add(x, y) ==
    CHOOSE r \in {LET g == GCD(a.den, b.den)
                  IN  Rat(a.num * (b.den \div g) + b.num * (a.den \div g),
                          (a.den \div g) * b.den) : a \in {x}, b \in {y}} : TRUE
Sub(x, y) ==
    CHOOSE r \in {LET g == GCD(a.den, b.den)
                  IN  Rat(a.num * (b.den \div g) - b.num * (a.den \div g),
                          (a.den \div g) * b.den) : a \in {x}, b \in {y}} : TRUE
Mul(x, y) ==
    CHOOSE r \in
        {IF IsFinite(a) /\ IsFinite(b) THEN Rat(a.num * b.num, a.den * b.den)
         ELSE IF IsNaN(a) \/ IsNaN(b) \/ a.num = 0 \/ b.num = 0 THEN NaN
         ELSE Infinity(IF (a.num < 0) = (b.num < 0) THEN 1 ELSE -1) :
            a \in {x}, b \in {y}} : TRUE

\* numpy.float64 division: x / 0 warns and yields nan or inf, it does not raise
Div(x, y) ==
    CHOOSE r \in
        {IF b.num = 0
         THEN IF a.num = 0 THEN NaN ELSE Infinity(IF a.num < 0 THEN -1 ELSE 1)
         ELSE Rat(a.num * b.den, a.den * b.num) : a \in {x}, b \in {y}} : TRUE

Less(x, y) == x.num * y.den < y.num * x.den

\* the sum of a sequence, added up by halves: the values are exact, so the
\* grouping of the additions does not change the sum
RECURSIVE Sum(_)
Sum(xs) ==
    IF xs = <<>> THEN Zero
    ELSE IF Len(xs) = 1 THEN xs[1]
    ELSE LET half == Len(xs) \div 2
         IN  Add(Sum(SubSeq(xs, 1, half)), Sum(SubSeq(xs, half + 1, Len(xs))))

(***************************************************************************)
(* detect_data_granularity.                                                *)
(***************************************************************************)
SampleSize == 100

Min(a, b) == IF a < b THEN a ELSE b

\* a variant that keeps the zero differences of repeated timestamps
TimeDiffsNonNegative(df, sample_size) ==
    LET diffs == [i \in 1..(sample_size - 1) |-> df[i + 1].Date - df[i].Date]
        kept == SelectSeq(diffs, LAMBDA diff : diff >= 0)
    IN  [k \in 1..Len(kept) |-> FromInt(kept[k])]

\* a variant that walks the whole frame instead of the sample
TimeDiffsWholeFrame(df, sample_size) ==
    LET diffs == [i \in 1..(Len(df) - 1) |-> df[i + 1].Date - df[i].Date]
        positive == SelectSeq(diffs, LAMBDA diff : diff > 0)
    IN  [k \in 1..Len(positive) |-> FromInt(positive[k])]

\* lines 58-62: the positive differences, in minutes, between consecutive
\* rows among the first sample_size rows, in row order
TimeDiffs(df, sample_size) ==
    LET diffs == [i \in 1..(sample_size - 1) |-> df[i + 1].Date - df[i].Date]
        positive == SelectSeq(diffs, LAMBDA diff : diff > 0)
    IN  [k \in 1..Len(positive) |-> FromInt(positive[k])]

\* a variant whose thresholds are inclusive
ClassifyInclusive(avg_diff) ==
    IF ~Less(FromInt(45), avg_diff) THEN "intraday_minute"
    ELSE IF ~Less(FromInt(90), avg_diff) THEN "intraday_hourly"
    ELSE IF ~Less(FromInt(18 * 60), avg_diff) THEN "intraday_half_day"
    ELSE IF ~Less(FromInt(36 * 60), avg_diff) THEN "daily"
    ELSE "daily_plus"

\* lines 70-79
Classify(avg_diff) ==
    IF Less(avg_diff, FromInt(45)) THEN "intraday_minute"
    ELSE IF Less(avg_diff, FromInt(90)) THEN "intraday_hourly"
    ELSE IF Less(avg_diff, FromInt(18 * 60)) THEN "intraday_half_day"
    ELSE IF Less(avg_diff, FromInt(36 * 60)) THEN "daily"
    ELSE "daily_plus"

DetectGranularity(df) ==
    IF Len(df) < 2 THEN "unknown"
    ELSE LET time_diffs == TimeDiffs(df, Min(SampleSize, Len(df)))
         IN  IF time_diffs = <<>> THEN "unknown"
             ELSE Classify(Div(Sum(time_diffs), FromInt(Len(time_diffs))))

(***************************************************************************)
(* simulate_investment, one action per loop iteration.                     *)
(***************************************************************************)
\* a variant that compares with > instead of >=
AvailableStrict(d, t) == SelectSeq(d, LAMBDA row : row.Date > t)

\* a variant that forgets the filter
AvailableAll(d, t) == d

\* a variant that compares with <= instead of >=
AvailableUpTo(d, t) == SelectSeq(d, LAMBDA row : row.Date <= t)

\* data[data['Date'] >= current]: the rows at or after t, in series order
Available(d, t) == SelectSeq(d, LAMBDA row : row.Date >= t)

\* a variant that compares with < instead of <=
UpToEndStrict(d, t) == SelectSeq(d, LAMBDA row : row.Date < t)

\* data[data['Date'] <= end_dt]
UpToEnd(d, t) == SelectSeq(d, LAMBDA row : row.Date <= t)

\* pd.to_datetime(x): a Timestamp, or ValueError for a string that is no date
ToDatetime(x) == [ok |-> x.valid, value |-> x.t]

NoResult == [kind |-> "none"]

\* no download window
NoGui == [kind |-> "none"]
Raise(e) == [kind |-> "raise", error |-> e]

\* a variant that charges the commission on the net amount
InvestmentCommissionOnNet(amt, rate, price) ==
    LET net == Mul(amt, Sub(One, rate))
    IN  [shares |-> Div(net, FromInt(price)), commission |-> Mul(net, rate)]

\* a variant that buys shares for the gross amount
InvestmentGrossShares(amt, rate, price) ==
    [shares |-> Div(amt, FromInt(price)), commission |-> Mul(amt, rate)]

\* lines 167-174: the record appended for one contribution bought at `price`
Investment(amt, rate, price) ==
    LET net == Mul(amt, Sub(One, rate))
    IN  [shares |-> Div(net, FromInt(price)), commission |-> Mul(amt, rate)]

SharesOf(invs) == [i \in 1..Len(invs) |-> invs[i].shares]
CommissionsOf(invs) == [i \in 1..Len(invs) |-> invs[i].commission]

\* a variant whose final price is the close of the row, among those up to
\* end_dt, numbered like the last contribution
ResultRecordPriceAtCount(d, end_dt, amt, invs) ==
    LET total_invested == Mul(FromInt(Len(invs)), amt)
        total_shares == Sum(SharesOf(invs))
        upto == UpToEnd(d, end_dt)
        final_price ==
            FromInt(upto[IF Len(invs) \in 1..Len(upto) THEN Len(invs)
                                                       ELSE Len(upto)].Close)
        final_value == Mul(total_shares, final_price)
    IN  [kind |-> "return",
         count |-> Len(invs),
         invested |-> total_invested,
         commission |-> Sum(CommissionsOf(invs)),
         shares |-> total_shares,
         value |-> final_value,
         return |-> Mul(Div(Sub(final_value, total_invested), total_invested),
                        FromInt(100)),
         final_price |-> final_price]

\* lines 230-243, given that a row at or before end_dt exists
ResultRecord(d, end_dt, amt, invs) ==
    LET total_invested == Mul(FromInt(Len(invs)), amt)
        total_shares == Sum(SharesOf(invs))
        upto == UpToEnd(d, end_dt)
        final_price == FromInt(upto[Len(upto)].Close)
        final_value == Mul(total_shares, final_price)
    IN  [kind |-> "return",
         count |-> Len(invs),
         invested |-> total_invested,
         commission |-> Sum(CommissionsOf(invs)),
         shares |-> total_shares,
         value |-> final_value,
         return |-> Mul(Div(Sub(final_value, total_invested), total_invested),
                        FromInt(100)),
         final_price |-> final_price]

\* a variant that defaults the final price to zero when no row qualifies
FinalizeDefaultZero(d, end_dt, amt, invs) ==
    IF UpToEnd(d, end_dt) = <<>>
    THEN [kind |-> "return", count |-> Len(invs),
          invested |-> Mul(FromInt(Len(invs)), amt),
          commission |-> Sum(CommissionsOf(invs)),
          shares |-> Sum(SharesOf(invs)), value |-> Zero,
          return |-> NaN, final_price |-> Zero]
    ELSE ResultRecord(d, end_dt, amt, invs)

\* lines 230-243: .iloc[-1] of an empty frame raises IndexError
Finalize(d, end_dt, amt, invs) ==
    IF UpToEnd(d, end_dt) = <<>> THEN Raise("IndexError")
    ELSE ResultRecord(d, end_dt, amt, invs)

(***************************************************************************)
(* The inputs of the simulation.  Timestamps lie on a grid of half steps   *)
(* of the frequency, starting on 31 January of the year after FirstYear    *)
(* at 09:30, so that a run makes a few contributions for every frequency.  *)
(***************************************************************************)
HalfStep(freq) ==
    IF freq \in FixedFrequencies THEN TimedeltaMinutes(freq) \div 2
    ELSE IF freq = "monthly" THEN 15 * MinutesPerDay
    ELSE IF freq = "quarterly" THEN 45 * MinutesPerDay
    ELSE IF freq = "semiannually" THEN 91 * MinutesPerDay
    ELSE IF freq = "yearly" THEN 183 * MinutesPerDay
    ELSE MinutesPerDay

GridBase == Timestamp(FirstYear + 1, 1, 31, 9 * 60 + 30)

GridInstant(freq, i) == GridBase + i * HalfStep(freq)

GridIndex == 0..GridMax

\* non-decreasing sequences of grid indexes, of length at most MaxLen
SortedIndexSeqs ==
    UNION {{q \in [1..n -> GridIndex] : \A i \in 1..(n - 1) : q[i] <= q[i + 1]} :
              n \in 0..MaxLen}

PriceShapes == {"rising", "falling", "flat"}

CloseAt(shape, n, i) ==
    IF shape = "rising" THEN i
    ELSE IF shape = "falling" THEN n + 1 - i
    ELSE 2

\* the series load_data returns: sorted by Date, duplicates allowed
Series(freq, q, shape) ==
    [i \in 1..Len(q) |-> [Date |-> GridInstant(freq, q[i]),
                          Close |-> CloseAt(shape, Len(q), i)]]

DateInput(t) == [none |-> FALSE, valid |-> TRUE, t |-> t]
BadDate == [none |-> FALSE, valid |-> FALSE, t |-> 0]
None == [none |-> TRUE, valid |-> FALSE, t |-> 0]

Amounts == {Rat(1, 2), Rat(168, 1)}
Rates == {Rat(1, 1000), Zero}

Init ==
    /\ frequency \in Frequencies
    /\ \E q \in SortedIndexSeqs, shape \in PriceShapes :
           data = Series(frequency, q, shape)
    /\ \/ \E i \in GridIndex : start = DateInput(GridInstant(frequency, i))
       \/ start = BadDate
    /\ \E i \in GridIndex : end = DateInput(GridInstant(frequency, i))
    /\ amount \in Amounts
    /\ commission_rate \in Rates
    /\ current = 0
    /\ investments = <<>>
    /\ trail = <<>>
    /\ result = NoResult
    /\ granularity = "none"
    /\ base_strategies = <<>>
    /\ strategies = <<>>
    /\ results = <<>>
    /\ summary = NoResult
    /\ sims = <<>>
    /\ gui = NoGui
    /\ workers = <<>>
    /\ pc = "call"

\* lines 158-160
Enter ==
    /\ UNCHANGED <<runVars, restVars>>
    /\ pc = "call"
    /\ IF ToDatetime(start).ok /\ ToDatetime(end).ok
       THEN /\ current' = ToDatetime(start).value
            /\ pc' = "loop"
            /\ UNCHANGED result
       ELSE /\ result' = Raise("ValueError")
            /\ pc' = "done"
            /\ UNCHANGED current
    /\ UNCHANGED <<data, start, end, amount, frequency, commission_rate,
                   investments, trail, granularity>>

end_dt == ToDatetime(end).value

\* lines 162-228: one iteration that records a contribution and steps
LoopBody ==
    /\ UNCHANGED <<runVars, restVars>>
    /\ pc = "loop"
    /\ current <= end_dt
    /\ Available(data, current) # <<>>
    /\ Available(data, current)[1].Date <= end_dt
    /\ Len(investments) < MaxInvest
    /\ investments' = Append(investments,
           Investment(amount, commission_rate, Available(data, current)[1].Close))
    /\ trail' = Append(trail, current)
    /\ current' = AdvanceCursor(current, frequency)
    /\ UNCHANGED <<data, start, end, amount, frequency, commission_rate, result,
                   granularity, pc>>

\* lines 164-165: break
LoopBreak ==
    /\ UNCHANGED <<runVars, restVars>>
    /\ pc = "loop"
    /\ current <= end_dt
    /\ IF Available(data, current) = <<>> THEN TRUE
       ELSE Available(data, current)[1].Date > end_dt
    /\ pc' = "after"
    /\ UNCHANGED <<data, start, end, amount, frequency, commission_rate,
                   current, investments, result, trail, granularity>>

\* line 162: the while condition fails
LoopExit ==
    /\ UNCHANGED <<runVars, restVars>>
    /\ pc = "loop"
    /\ current > end_dt
    /\ pc' = "after"
    /\ UNCHANGED <<data, start, end, amount, frequency, commission_rate,
                   current, investments, result, trail, granularity>>

\* lines 230-243
Finish ==
    /\ UNCHANGED <<runVars, restVars>>
    /\ pc = "after"
    /\ result' = Finalize(data, end_dt, amount, investments)
    /\ pc' = "done"
    /\ UNCHANGED <<data, start, end, amount, frequency, commission_rate,
                   current, investments, trail, granularity>>

Next == Enter \/ LoopBody \/ LoopBreak \/ LoopExit \/ Finish

Spec == Init /\ [][Next]_vars

(***************************************************************************)
(* simulate_investment as one call, for the comparison run.                *)
(***************************************************************************)
RECURSIVE SimulateLoop(_, _, _, _, _, _, _)
SimulateLoop(d, cur, last, amt, freq, rate, invs) ==
    IF cur > last THEN invs
    ELSE LET available == Available(d, cur)
         IN  IF available = <<>> THEN invs
             ELSE IF available[1].Date > last THEN invs
             ELSE SimulateLoop(d, AdvanceCursor(cur, freq), last, amt, freq, rate,
                               Append(invs, Investment(amt, rate, available[1].Close)))

\* a variant that contributes 100 per date whatever amount it is given
SimulateFixedAmount(d, from, to, amt, freq, rate) ==
    IF ~(ToDatetime(from).ok /\ ToDatetime(to).ok) THEN Raise("ValueError")
    ELSE Finalize(d, ToDatetime(to).value, FromInt(100),
                  SimulateLoop(d, ToDatetime(from).value, ToDatetime(to).value,
                               FromInt(100), freq, rate, <<>>))

Simulate(d, from, to, amt, freq, rate) ==
    IF ~(ToDatetime(from).ok /\ ToDatetime(to).ok) THEN Raise("ValueError")
    ELSE Finalize(d, ToDatetime(to).value, amt,
                  SimulateLoop(d, ToDatetime(from).value, ToDatetime(to).value,
                               amt, freq, rate, <<>>))

(***************************************************************************)
(* get_strategies_for_granularity and the selection of at most 8           *)
(* strategies.  The display names are Chinese in the source; they are      *)
(* rendered in English here.                                               *)
(***************************************************************************)
Strategy(name, hours, freq) == [name |-> name, amount |-> hours, freq |-> freq]

EveryHalfHour == Strategy("every half hour", Rat(1, 2), "halfhourly")
EveryHour == Strategy("every hour", FromInt(1), "hourly")
Every3Hours == Strategy("every 3 hours", FromInt(3), "3hourly")
Every6Hours == Strategy("every 6 hours", FromInt(6), "6hourly")
Every12Hours == Strategy("every 12 hours", FromInt(12), "12hourly")
EveryDay == Strategy("every day", FromInt(24), "daily")
Every3Days == Strategy("every 3 days", FromInt(72), "3daily")
EveryWeek == Strategy("every week", FromInt(168), "weekly")
EveryMonth == Strategy("every month", FromInt(720), "monthly")
EveryQuarter == Strategy("every quarter", FromInt(2160), "quarterly")
EveryHalfYear == Strategy("every half year", FromInt(4320), "semiannually")
EveryYear == Strategy("every year", FromInt(8760), "yearly")

\* a variant whose half-day list offers the month before the week
StrategiesForReordered(g) ==
    IF g = "intraday_minute"
    THEN <<EveryHalfHour, EveryHour, Every3Hours, Every6Hours, Every12Hours,
           EveryDay, Every3Days, EveryWeek>>
    ELSE IF g = "intraday_hourly"
    THEN <<EveryHour, Every3Hours, Every6Hours, Every12Hours,
           EveryDay, Every3Days, EveryWeek>>
    ELSE IF g = "intraday_half_day"
    THEN <<Every12Hours, EveryDay, Every3Days, EveryMonth, EveryWeek>>
    ELSE IF g = "daily"
    THEN <<EveryDay, Every3Days, EveryWeek, EveryMonth, EveryQuarter, EveryHalfYear>>
    ELSE <<EveryWeek, EveryMonth, EveryQuarter, EveryHalfYear, EveryYear>>

\* a variant whose minute list has a ninth entry
StrategiesForNine(g) ==
    IF g = "intraday_minute"
    THEN <<EveryHalfHour, EveryHour, Every3Hours, Every6Hours, Every12Hours,
           EveryDay, Every3Days, EveryWeek, EveryMonth>>
    ELSE IF g = "intraday_hourly"
    THEN <<EveryHour, Every3Hours, Every6Hours, Every12Hours,
           EveryDay, Every3Days, EveryWeek>>
    ELSE IF g = "intraday_half_day"
    THEN <<Every12Hours, EveryDay, Every3Days, EveryWeek, EveryMonth>>
    ELSE IF g = "daily"
    THEN <<EveryDay, Every3Days, EveryWeek, EveryMonth, EveryQuarter, EveryHalfYear>>
    ELSE <<EveryWeek, EveryMonth, EveryQuarter, EveryHalfYear, EveryYear>>

\* a variant whose last list offers a fortnight first, under a code the
\* chain of simulate_investment does not know
StrategiesForFortnight(g) ==
    IF g = "intraday_minute"
    THEN <<EveryHalfHour, EveryHour, Every3Hours, Every6Hours, Every12Hours,
           EveryDay, Every3Days, EveryWeek>>
    ELSE IF g = "intraday_hourly"
    THEN <<EveryHour, Every3Hours, Every6Hours, Every12Hours,
           EveryDay, Every3Days, EveryWeek>>
    ELSE IF g = "intraday_half_day"
    THEN <<Every12Hours, EveryDay, Every3Days, EveryWeek, EveryMonth>>
    ELSE IF g = "daily"
    THEN <<EveryDay, Every3Days, EveryWeek, EveryMonth, EveryQuarter, EveryHalfYear>>
    ELSE <<Strategy("every two weeks", FromInt(336), UnknownFrequency),
           EveryMonth, EveryQuarter, EveryHalfYear, EveryYear>>

\* lines 81-133
StrategiesFor(g) ==
    IF g = "intraday_minute"
    THEN <<EveryHalfHour, EveryHour, Every3Hours, Every6Hours, Every12Hours,
           EveryDay, Every3Days, EveryWeek>>
    ELSE IF g = "intraday_hourly"
    THEN <<EveryHour, Every3Hours, Every6Hours, Every12Hours,
           EveryDay, Every3Days, EveryWeek>>
    ELSE IF g = "intraday_half_day"
    THEN <<Every12Hours, EveryDay, Every3Days, EveryWeek, EveryMonth>>
    ELSE IF g = "daily"
    THEN <<EveryDay, Every3Days, EveryWeek, EveryMonth, EveryQuarter, EveryHalfYear>>
    ELSE <<EveryWeek, EveryMonth, EveryQuarter, EveryHalfYear, EveryYear>>

\* a variant whose step is len / 16
SelectIndexHalfStep(i, len) == (i * len) \div 16

\* a variant that spreads the 8 picks from the first to the last entry
SelectIndexEndToEnd(i, len) == (i * (len - 1)) \div 7

\* lines 273-275: idx = int(i * step) with step = len / 8.  Dividing by 8 is
\* exact in binary floating point and so is the product with i < 8, and int()
\* truncates a non-negative float, so idx is the integer quotient.
SelectIndex(i, len) == (i * len) \div 8

\* lines 267-276, a 0-based idx being the row idx + 1 of a sequence
SelectDisplaySet(list) ==
    IF Len(list) <= 8 THEN list
    ELSE [i \in 1..8 |-> list[SelectIndex(i - 1, Len(list)) + 1]]

(***************************************************************************)
(* run (and the GUI's run_analysis, which repeats it).                     *)
(***************************************************************************)
\* df['Date'].min(), df['Date'].max()
MinDate(df) == CHOOSE t \in {df[i].Date : i \in 1..Len(df)} :
                   \A i \in 1..Len(df) : t <= df[i].Date
MaxDate(df) == CHOOSE t \in {df[i].Date : i \in 1..Len(df)} :
                   \A i \in 1..Len(df) : t >= df[i].Date

\* t.strftime('%Y-%m-%d'): the string keeps the date only, so it parses back
\* to midnight of that date
StrftimeDate(t) == DateInput(Timestamp(YearOf(t), MonthOf(t), DayOf(t), 0))

\* a variant that also replaces the candidate on an equal key
RECURSIVE MaxScanLastOccurrence(_, _, _)
MaxScanLastOccurrence(rs, i, best) ==
    IF i > Len(rs) THEN best
    ELSE MaxScanLastOccurrence(rs, i + 1,
             IF Less(rs[i].result.return, rs[best].result.return) THEN best ELSE i)

\* max(results, key=...) / min(results, key=...): a linear scan that replaces
\* the candidate only on a strictly greater (smaller) key
RECURSIVE MaxScan(_, _, _)
MaxScan(rs, i, best) ==
    IF i > Len(rs) THEN best
    ELSE MaxScan(rs, i + 1,
                 IF Less(rs[best].result.return, rs[i].result.return) THEN i ELSE best)

RECURSIVE MinScan(_, _, _)
MinScan(rs, i, worst) ==
    IF i > Len(rs) THEN worst
    ELSE MinScan(rs, i + 1,
                 IF Less(rs[i].result.return, rs[worst].result.return) THEN i ELSE worst)

\* lines 295-303
Conclusion(rs) ==
    LET best == MaxScan(rs, 2, 1)
        worst == MinScan(rs, 2, 1)
    IN  [kind |-> "summary",
         best |-> best,
         worst |-> worst,
         spread |-> Sub(rs[best].result.return, rs[worst].result.return),
         final_price |-> rs[1].result.final_price]

\* the files of the comparison run: rows at gaps of 0 minutes to a week
RunGapValues == {0, 30, 60, 12 * 60, MinutesPerDay, 7 * MinutesPerDay}
RunGapSeqs == UNION {[1..n -> RunGapValues] : n \in 0..MaxRunGaps}
RunFirstTimes == {0, 30}
RunDay == Timestamp(FirstYear + 1, 1, 31, 0)

RECURSIVE RunDateAfterGaps(_, _, _)
RunDateAfterGaps(first, gaps, i) ==
    IF i = 0 THEN first ELSE RunDateAfterGaps(first, gaps, i - 1) + gaps[i]

RunSeries(first, gaps, shape) ==
    [i \in 1..(Len(gaps) + 1) |->
        [Date |-> RunDateAfterGaps(first, gaps, i - 1),
         Close |-> CloseAt(shape, Len(gaps) + 1, i)]]

\* the start / end arguments: absent, unparsable, or a date near the data
RunStartArgs ==
    {None, BadDate} \cup {DateInput(RunDay + k * MinutesPerDay) : k \in {0, 1, 14}}
RunEndArgs ==
    {None} \cup {DateInput(RunDay + k * MinutesPerDay) : k \in {-1, 0, 1, 14}}

RunInit ==
    /\ \/ data = <<>>
       \/ \E tod \in RunFirstTimes, gaps \in RunGapSeqs, shape \in PriceShapes :
              data = RunSeries(RunDay + tod, gaps, shape)
    /\ start \in RunStartArgs
    /\ end \in RunEndArgs
    /\ commission_rate = Rat(1, 1000)
    /\ frequency = "weekly"
    /\ amount = Zero
    /\ current = 0
    /\ investments = <<>>
    /\ trail = <<>>
    /\ result = NoResult
    /\ granularity = "none"
    /\ base_strategies = <<>>
    /\ strategies = <<>>
    /\ results = <<>>
    /\ summary = NoResult
    /\ sims = <<>>
    /\ gui = NoGui
    /\ workers = <<>>
    /\ pc = "run"

\* lines 260-261: start = start or info['start_date'].strftime('%Y-%m-%d')
RunStart == IF start.none THEN StrftimeDate(MinDate(data)) ELSE start
RunEnd == IF end.none THEN StrftimeDate(MaxDate(data)) ELSE end

\* lines 247-276; data['Symbol'].iloc[0] of an empty file raises IndexError
RunLoad ==
    /\ UNCHANGED restVars
    /\ pc = "run"
    /\ IF data = <<>>
       THEN /\ summary' = Raise("IndexError")
            /\ pc' = "run_done"
            /\ UNCHANGED <<granularity, base_strategies, strategies>>
       ELSE /\ granularity' = DetectGranularity(data)
            /\ base_strategies' = StrategiesFor(granularity')
            /\ strategies' = SelectDisplaySet(base_strategies')
            /\ pc' = "run_simulate"
            /\ UNCHANGED summary
    /\ UNCHANGED <<data, start, end, amount, frequency, commission_rate, current,
                   investments, result, trail, results>>

\* lines 278-281: the next strategy is simulated; an exception leaves run
RunSimulate ==
    /\ UNCHANGED restVars
    /\ pc = "run_simulate"
    /\ Len(results) < Len(strategies)
    /\ LET strategy == strategies[Len(results) + 1]
           r == Simulate(data, RunStart, RunEnd, strategy.amount, strategy.freq,
                         commission_rate)
       IN  IF r.kind = "raise"
           THEN /\ summary' = r
                /\ pc' = "run_done"
                /\ UNCHANGED results
           ELSE /\ results' = Append(results, [name |-> strategy.name, result |-> r])
                /\ UNCHANGED <<summary, pc>>
    /\ UNCHANGED <<data, start, end, amount, frequency, commission_rate, current,
                   investments, result, trail, granularity, base_strategies,
                   strategies>>

\* lines 283-293: result['invested'] / result['shares'] divides by the int 0
\* that sum() returns for an empty list of investments
RunDisplay ==
    /\ UNCHANGED restVars
    /\ pc = "run_simulate"
    /\ Len(results) = Len(strategies)
    /\ IF \E i \in 1..Len(results) : results[i].result.count = 0
       THEN /\ summary' = Raise("ZeroDivisionError")
            /\ pc' = "run_done"
       ELSE /\ pc' = "run_rank"
            /\ UNCHANGED summary
    /\ UNCHANGED <<data, start, end, amount, frequency, commission_rate, current,
                   investments, result, trail, granularity, base_strategies,
                   strategies, results>>

\* lines 295-303
RunRank ==
    /\ UNCHANGED restVars
    /\ pc = "run_rank"
    /\ summary' = Conclusion(results)
    /\ pc' = "run_done"
    /\ UNCHANGED <<data, start, end, amount, frequency, commission_rate, current,
                   investments, result, trail, granularity, base_strategies,
                   strategies, results>>

RunNext == RunLoad \/ RunSimulate \/ RunDisplay \/ RunRank

SpecRun == RunInit /\ [][RunNext]_vars

(***************************************************************************)
(* The strategy catalogue and the selection on their own: the lookup of    *)
(* every label followed by the selection, and the selection applied to     *)
(* lists of up to MaxListLen distinct entries, longer than any list the    *)
(* catalogue holds.                                                        *)
(***************************************************************************)
GranularityLabels ==
    {"intraday_minute", "intraday_hourly", "intraday_half_day", "daily",
     "daily_plus", "unknown"}

\* a label that detect_data_granularity never returns
OtherLabel == "weekly"

\* n distinct entries, numbered from k + 1
SyntheticList(k, n) ==
    [i \in 1..n |-> Strategy("synthetic", FromInt(k + i), "weekly")]

SelectInit ==
    /\ \/ /\ granularity \in GranularityLabels \cup {OtherLabel}
          /\ base_strategies = <<>>
          /\ pc = "lookup"
       \/ /\ granularity = "none"
          /\ \E k \in 0..11, n \in 0..MaxListLen :
                 base_strategies = SyntheticList(k, n)
          /\ pc = "select"
    /\ data = <<>>
    /\ start = BadDate
    /\ end = BadDate
    /\ frequency = "weekly"
    /\ amount = Zero
    /\ commission_rate = Zero
    /\ current = 0
    /\ investments = <<>>
    /\ trail = <<>>
    /\ result = NoResult
    /\ strategies = <<>>
    /\ results = <<>>
    /\ summary = NoResult
    /\ sims = <<>>
    /\ gui = NoGui
    /\ workers = <<>>

\* line 265
Lookup ==
    /\ UNCHANGED restVars
    /\ pc = "lookup"
    /\ base_strategies' = StrategiesFor(granularity)
    /\ pc' = "select"
    /\ UNCHANGED <<data, start, end, amount, frequency, commission_rate, current,
                   investments, result, trail, granularity, strategies, results,
                   summary>>

\* lines 267-276
Select ==
    /\ UNCHANGED restVars
    /\ pc = "select"
    /\ strategies' = SelectDisplaySet(base_strategies)
    /\ pc' = "selected"
    /\ UNCHANGED <<data, start, end, amount, frequency, commission_rate, current,
                   investments, result, trail, granularity, base_strategies,
                   results, summary>>

SelectNext == Lookup \/ Select

SpecSelect == SelectInit /\ [][SelectNext]_vars

CodesOf(list) == [i \in 1..Len(list) |-> list[i].freq]
HoursOf(list) == [i \in 1..Len(list) |-> list[i].amount]

C14_SelectDisplaySet ==
    (pc = "selected") =>
        LET L == Len(base_strategies)
        IN  /\ L <= 8 => strategies = base_strategies
            /\ L > 8 =>
                   /\ Len(strategies) = 8
                   /\ \A i \in 0..7 :
                          strategies[i + 1] = base_strategies[((i * L) \div 8) + 1]
            /\ L = 12 =>
                   strategies = <<base_strategies[1], base_strategies[2],
                                  base_strategies[4], base_strategies[5],
                                  base_strategies[7], base_strategies[8],
                                  base_strategies[10], base_strategies[11]>>
            /\ Len(strategies) <= 8

\* the list numbered 1..12: entries 1, 2, 4, 5, 7, 8, 10, 11 are selected
C14_Witness ==
    /\ pc = "selected"
    /\ Len(base_strategies) = 12
    /\ base_strategies[1].amount = FromInt(1)
    /\ HoursOf(strategies) = <<FromInt(1), FromInt(2), FromInt(4), FromInt(5),
                               FromInt(7), FromInt(8), FromInt(10), FromInt(11)>>

(***************************************************************************)
(* C15, as claimed: some list length L > 8 makes the index formula         *)
(* floor(i * L / 8), i = 0..7, give the same index for two different i.    *)
(* Stated at the longest list selected from: one of the lengths from 9 up  *)
(* to its length repeats an index.                                         *)
(***************************************************************************)
C15_SomeLengthRepeatsAnIndex ==
    (pc = "selected" /\ Len(base_strategies) = MaxListLen) =>
        \E L \in 9..Len(base_strategies) :
            \E i, j \in 0..7 : i # j /\ SelectIndex(i, L) = SelectIndex(j, L)

(***************************************************************************)
(* C15, amended: for every list length L > 8 the indices                   *)
(* floor(i * L / 8), i = 0..7, are strictly increasing, so that no entry   *)
(* is taken twice; a list of 9 yields its first 8 entries.                 *)
(***************************************************************************)
C15_SelectedIndicesDistinct ==
    (pc = "selected" /\ Len(base_strategies) > 8) =>
        /\ \A i, j \in 0..7 :
               i < j => SelectIndex(i, Len(base_strategies))
                            < SelectIndex(j, Len(base_strategies))
        /\ \A i, j \in 1..Len(strategies) : i # j => strategies[i] # strategies[j]
        /\ Len(base_strategies) = 9 => strategies = SubSeq(base_strategies, 1, 8)

C15_Witness ==
    /\ pc = "selected"
    /\ Len(base_strategies) = 9
    /\ Len(strategies) = 8
    /\ strategies[8] = base_strategies[8]

(***************************************************************************)
(* C16: in a comparison run the list handed to the selection has at most   *)
(* 8 entries for every series, so the evenly spaced sampling is never      *)
(* applied and the strategies simulated are exactly the catalogue list of  *)
(* the detected label.                                                     *)
(***************************************************************************)
C16_SamplingBranchUnreachable ==
    (pc \in {"run_simulate", "run_rank", "run_done"} /\ data # <<>>) =>
        /\ granularity \in GranularityLabels
        /\ base_strategies = StrategiesFor(granularity)
        /\ Len(base_strategies) <= 8
        /\ strategies = base_strategies
        /\ \A i \in 1..Len(results) : results[i].name = base_strategies[i].name

\* the longest catalogue list, all 8 of its strategies simulated and ranked
C16_Witness ==
    /\ pc = "run_done"
    /\ summary.kind = "summary"
    /\ granularity = "intraday_minute"
    /\ Len(base_strategies) = 8
    /\ Len(results) = 8

(***************************************************************************)
(* C27: every frequency code of every list of the catalogue is one of the  *)
(* codes for which the chain of simulate_investment moves the cursor, and  *)
(* for a fixed-duration code the interval hours of the strategy are the    *)
(* length in hours of the step of that code: 0.5, 1, 3, 6, 12, 24, 72,     *)
(* 168.                                                                    *)
(***************************************************************************)
C27_CatalogueCodesAdvance ==
    (pc \in {"select", "selected"} /\ granularity # "none") =>
        \A i \in 1..Len(base_strategies) :
            LET s == base_strategies[i]
            IN  /\ s.freq \in KnownFrequencies
                /\ AdvanceCursor(GridBase, s.freq) > GridBase
                /\ s.freq \in FixedFrequencies =>
                       /\ Mul(s.amount, FromInt(60)) =
                              FromInt(TimedeltaMinutes(s.freq))
                       /\ s.amount \in {Rat(1, 2), FromInt(1), FromInt(3),
                                         FromInt(6), FromInt(12), FromInt(24),
                                         FromInt(72), FromInt(168)}

\* the minute list, looked up: half an hour first, the week (168 h) last
C27_Witness ==
    /\ pc = "select"
    /\ granularity = "intraday_minute"
    /\ base_strategies[1].freq = "halfhourly"
    /\ Mul(base_strategies[1].amount, FromInt(60)) = FromInt(30)
    /\ base_strategies[8].freq = "weekly"
    /\ base_strategies[8].amount = FromInt(168)

C29_FullRangeCoversSeries ==
    (pc \in {"run_simulate", "run_rank", "run_done"}
        /\ start.none /\ end.none /\ data # <<>>) =>
        /\ ~(summary.kind = "raise" /\ summary.error = "IndexError")
        /\ \A i \in 1..Len(results) :
               results[i].result.final_price = FromInt(data[Len(data)].Close)

(***************************************************************************)
(* Vocabulary of the claims about simulate.                                *)
(***************************************************************************)
DatesValid == start.valid /\ end.valid
Returned == pc = "done" /\ result.kind = "return"
Raised(e) == pc = "done" /\ result.kind = "raise" /\ result.error = e

HasPointAtOrAfter(t) == \E i \in 1..Len(data) : data[i].Date >= t

\* the earliest point with timestamp >= t (the first of them in series order)
EarliestAtOrAfter(t) ==
    CHOOSE i \in 1..Len(data) :
        /\ data[i].Date >= t
        /\ \A j \in 1..Len(data) :
              data[j].Date >= t =>
                  \/ data[i].Date < data[j].Date
                  \/ (data[i].Date = data[j].Date /\ i <= j)

\* a contribution is due at cursor t: a point at or after t exists and the
\* earliest such point is not after the end date
Covered(t) ==
    /\ HasPointAtOrAfter(t)
    /\ data[EarliestAtOrAfter(t)].Date <= end.t

NoPointUpToEnd == \A i \in 1..Len(data) : data[i].Date > end.t

\* the k-th cursor value of the schedule, k = 0, 1, ...
RECURSIVE CursorAt(_)
CursorAt(k) == IF k = 0 THEN start.t ELSE AdvanceCursor(CursorAt(k - 1), frequency)

(***************************************************************************)
(* C1: every recorded contribution is bought at the close of the earliest  *)
(* point at or after its cursor value, and only when that point is not     *)
(* after the end date; the loop stops at the first cursor value without    *)
(* such a point and records nothing for it or for any later cursor value.  *)
(***************************************************************************)
C1_ContributionsAtEarliestPoint ==
    (pc \in {"loop", "after", "done"} /\ DatesValid) =>
        /\ Len(investments) = Len(trail)
        /\ \A k \in 1..Len(trail) :
              /\ trail[k] = CursorAt(k - 1)
              /\ Covered(trail[k])
              /\ investments[k].shares =
                     Div(Mul(amount, Sub(One, commission_rate)),
                         FromInt(data[EarliestAtOrAfter(trail[k])].Close))
        /\ current = CursorAt(Len(trail))
        /\ (pc \in {"after", "done"}) => ~Covered(current)
        /\ Returned => result.count = Len(trail)

\* a contribution bought at a point later than its cursor value that is not
\* the first point of the series, and the loop stopped by a cursor value,
\* not after the end date, that no point covers
C1_Witness ==
    /\ Returned
    /\ result.count >= 1
    /\ data[EarliestAtOrAfter(trail[1])].Date > trail[1]
    /\ data[EarliestAtOrAfter(trail[1])].Close # data[1].Close
    /\ current <= end.t

(***************************************************************************)
(* C6: when no contribution is made but a point at or before the end date  *)
(* exists, the result carries an explicit no-contribution flag and its     *)
(* return percentage is not NaN or Infinity.                               *)
(***************************************************************************)
C6_ZeroContributionsFlagged ==
    (pc = "done" /\ DatesValid /\ ~NoPointUpToEnd /\ Len(investments) = 0) =>
        /\ result.kind = "return"
        /\ IsFinite(result.return)
        /\ "no_contributions" \in DOMAIN result

(***************************************************************************)
(* C7: when no point lies at or before the end date, simulate returns no   *)
(* result record; it raises an error (IndexError) that no other failure    *)
(* of simulate raises, never a result with a defaulted final price.        *)
(***************************************************************************)
C7_NoFinalPriceIsAnError ==
    (pc = "done") =>
        /\ NoPointUpToEnd => result.kind = "raise"
        /\ (NoPointUpToEnd /\ DatesValid) => Raised("IndexError")
        /\ Raised("IndexError") => (NoPointUpToEnd /\ DatesValid)

\* the end date lies before the first point of a non-empty series
C7_Witness ==
    /\ Raised("IndexError")
    /\ Len(data) > 0
    /\ end.t < data[1].Date
    /\ start.t <= end.t

(***************************************************************************)
(* C8, as claimed: for every start after the last point or end before the  *)
(* first point, simulate returns a result with contributionCount = 0.      *)
(***************************************************************************)
StartAfterLast == Len(data) > 0 /\ start.t > data[Len(data)].Date
EndBeforeFirst == Len(data) > 0 /\ end.t < data[1].Date

C8_OutOfRangeYieldsZero ==
    (pc = "done" /\ DatesValid /\ (StartAfterLast \/ EndBeforeFirst)) =>
        (result.kind = "return" /\ result.count = 0)

(***************************************************************************)
(* C8, amended: a start after the last point, with an end not before the   *)
(* first point, yields a result with contributionCount = 0; an end before  *)
(* the first point yields no result: simulate raises IndexError.           *)
(***************************************************************************)
C8_OutOfRangeAmended ==
    (pc = "done" /\ DatesValid) =>
        /\ (StartAfterLast /\ ~EndBeforeFirst) =>
               (result.kind = "return" /\ result.count = 0)
        /\ EndBeforeFirst => Raised("IndexError")

C8_Witness ==
    /\ Returned
    /\ StartAfterLast
    /\ start.t <= end.t
    /\ result.count = 0

(***************************************************************************)
(* C17: in every result, invested = count * amount (the gross amount, the  *)
(* commission is not added to it) and commission = count * amount * rate:  *)
(* the commission is charged once on each recorded contribution and on     *)
(* nothing else.                                                           *)
(***************************************************************************)
C17_InvestedAndCommission ==
    Returned =>
        /\ result.count = Len(investments)
        /\ result.invested = Mul(FromInt(result.count), amount)
        /\ result.commission =
               Mul(Mul(FromInt(result.count), amount), commission_rate)
        /\ \A k \in 1..Len(investments) :
               investments[k].commission = Mul(amount, commission_rate)

\* several contributions at a non-zero rate
C17_Witness ==
    /\ Returned
    /\ result.count >= 2
    /\ commission_rate # Zero
    /\ Less(Zero, result.commission)
    /\ Less(result.commission, result.invested)

(***************************************************************************)
(* C18: in every result, final_price is the close of the latest point with *)
(* timestamp <= end (the last of them in series order when timestamps      *)
(* repeat), also when that point lies before start or was never bought     *)
(* at, and value = shares * final_price.                                   *)
(***************************************************************************)
LatestUpToEnd ==
    CHOOSE i \in 1..Len(data) :
        /\ data[i].Date <= end.t
        /\ \A j \in 1..Len(data) :
              data[j].Date <= end.t =>
                  \/ data[j].Date < data[i].Date
                  \/ (data[j].Date = data[i].Date /\ j <= i)

C18_FinalPrice ==
    Returned =>
        /\ ~NoPointUpToEnd
        /\ result.final_price = FromInt(data[LatestUpToEnd].Close)
        /\ result.value = Mul(result.shares, result.final_price)

\* the final price comes from a row that repeats the timestamp of the row
\* before it, lies before the start date and was not bought at
C18_Witness ==
    /\ Returned
    /\ LatestUpToEnd >= 2
    /\ data[LatestUpToEnd].Date = data[LatestUpToEnd - 1].Date
    /\ data[LatestUpToEnd].Close # data[LatestUpToEnd - 1].Close
    /\ data[LatestUpToEnd].Date < start.t
    /\ result.count = 0
    /\ result.final_price = FromInt(data[LatestUpToEnd].Close)

(***************************************************************************)
(* The simulation as a running program: the caller passes its arguments,   *)
(* and from then on a step that can be taken is eventually taken.          *)
(***************************************************************************)
TermInit ==
    /\ data = <<>>
    /\ start = None
    /\ end = None
    /\ frequency = "weekly"
    /\ amount = Zero
    /\ commission_rate = Zero
    /\ current = 0
    /\ investments = <<>>
    /\ trail = <<>>
    /\ result = NoResult
    /\ granularity = "none"
    /\ base_strategies = <<>>
    /\ strategies = <<>>
    /\ results = <<>>
    /\ summary = NoResult
    /\ sims = <<>>
    /\ gui = NoGui
    /\ workers = <<>>
    /\ pc = "caller"

\* line 156: simulate_investment is called with its arguments
Call ==
    /\ pc = "caller"
    /\ frequency' \in Frequencies
    /\ \E q \in SortedIndexSeqs : data' = Series(frequency', q, "rising")
    /\ \E i \in GridIndex : start' = DateInput(GridInstant(frequency', i))
    /\ \E i \in GridIndex : end' = DateInput(GridInstant(frequency', i))
    /\ amount' = FromInt(168)
    /\ commission_rate' = Rat(1, 1000)
    /\ pc' = "call"
    /\ UNCHANGED <<current, investments, result, trail, granularity, runVars,
                   restVars>>

TermNext == Call \/ Next

SpecFair == TermInit /\ [][TermNext]_vars /\ WF_vars(Next)

\* the cursor values of the loop so far, the current one included
Cursors == Append(trail, current)

(***************************************************************************)
(* C23: for each of the 12 frequency codes every iteration that records a  *)
(* contribution moves the cursor to a strictly later instant, also when a  *)
(* calendar step is clamped to day 1, and the loop terminates for every    *)
(* series, start and end: simulate returns or raises.                      *)
(***************************************************************************)
C23_KnownFrequenciesTerminate ==
    /\ [](( pc \in {"loop", "after", "done"} /\ DatesValid
             /\ frequency \in KnownFrequencies) =>
              \A k \in 1..Len(trail) : Cursors[k] < Cursors[k + 1])
    /\ (pc = "call" /\ frequency \in KnownFrequencies) ~> (pc = "done")

\* 31 January -> 1 February (clamped) -> 1 March, and the call has returned
C23_Witness ==
    /\ Returned
    /\ frequency = "monthly"
    /\ result.count = 2
    /\ DayOf(trail[1]) = 31
    /\ MonthOf(trail[2]) = 2 /\ DayOf(trail[2]) = 1
    /\ MonthOf(current) = 3 /\ DayOf(current) = 1

(***************************************************************************)
(* C24: simulate terminates for every value of its frequency argument,     *)
(* with a finite number of contributions.  The loop is deterministic in    *)
(* the cursor, so it terminates only if it never comes back to a cursor    *)
(* value it has been at: stated as that.                                   *)
(***************************************************************************)
C24_EveryFrequencyTerminates ==
    (pc = "loop" /\ DatesValid) =>
        \A k \in 1..Len(trail) : trail[k] # current

\* T: the timestamp of the latest row at or before end
LatestTimestamp == data[LatestUpToEnd].Date

\* the k up to MaxInvest whose cursor value c_k is at or before T
CoveredSteps ==
    {k \in 0..MaxInvest : CursorAt(k) <= LatestTimestamp}

(***************************************************************************)
(* C25: with T the timestamp of the latest row at or before end and c_k    *)
(* the successive cursor values from start, the contribution count of a    *)
(* returned result is the number of k with c_k <= T (none lies beyond the  *)
(* steps counted here: c_MaxInvest > T); for a fixed step d and            *)
(* start <= T it is floor((T - start) / d) + 1, which is 209 for weekly    *)
(* steps over 1461 daily rows (T - start = 1460 days).                     *)
(***************************************************************************)
C25_ContributionCount ==
    /\ (Returned /\ frequency \in KnownFrequencies) =>
           /\ CursorAt(MaxInvest) > LatestTimestamp
           /\ result.count = Cardinality(CoveredSteps)
           /\ (frequency \in FixedFrequencies /\ start.t <= LatestTimestamp) =>
                  result.count =
                      ((LatestTimestamp - start.t) \div TimedeltaMinutes(frequency)) + 1
    /\ ((1460 * MinutesPerDay) \div TimedeltaMinutes("weekly")) + 1 = 209

\* two cursor values fall before one row, which is bought twice: the closes
\* of the series are all different and both contributions paid the same one
C25_Witness ==
    /\ Returned
    /\ frequency = "3hourly"
    /\ result.count = 2
    /\ Len(data) = 2
    /\ data[1].Close # data[2].Close
    /\ CursorAt(1) < data[1].Date
    /\ investments[1] = investments[2]

(***************************************************************************)
(* The simulation of daily series: 1 to MaxInvest rows exactly one day     *)
(* apart, at a constant or a rising close, simulated from the first row    *)
(* to the last row or to the day after it.                                 *)
(***************************************************************************)
DailyCloses == {1, 3, 10}
DailyAmounts == {Rat(1, 2), FromInt(24), FromInt(50)}
DailyRates == {Zero, Rat(1, 1000), Rat(1, 2)}

DailySeries(n, p, shape) ==
    [i \in 1..n |-> [Date |-> GridBase + (i - 1) * MinutesPerDay,
                     Close |-> IF shape = "flat" THEN p ELSE p * i]]

DailyInit ==
    /\ frequency \in {"daily", "3daily"}
    /\ \E n \in 1..MaxInvest, p \in DailyCloses, shape \in {"flat", "rising"} :
           data = DailySeries(n, p, shape)
    /\ start = DateInput(data[1].Date)
    /\ \E k \in {0, 1} :
           end = DateInput(data[Len(data)].Date + k * MinutesPerDay)
    /\ amount \in DailyAmounts
    /\ commission_rate \in DailyRates
    /\ current = 0
    /\ investments = <<>>
    /\ trail = <<>>
    /\ result = NoResult
    /\ granularity = "none"
    /\ base_strategies = <<>>
    /\ strategies = <<>>
    /\ results = <<>>
    /\ summary = NoResult
    /\ sims = <<>>
    /\ gui = NoGui
    /\ workers = <<>>
    /\ pc = "call"

SpecDaily == DailyInit /\ [][Next]_vars

\* N rows exactly one day apart at the constant close p, simulated daily
\* from the first to the last timestamp
DailyConstantCase(p) ==
    /\ frequency = "daily"
    /\ Len(data) >= 1
    /\ \A i \in 1..Len(data) : data[i].Close = p
    /\ \A i \in 2..Len(data) : data[i].Date - data[i - 1].Date = MinutesPerDay
    /\ start = DateInput(data[1].Date)
    /\ end = DateInput(data[Len(data)].Date)

(***************************************************************************)
(* C21: daily contributions of A at commission rate c over N rows one day  *)
(* apart at the constant close P, from the first to the last timestamp:    *)
(* count = N, shares = N*A*(1-c)/P, value = N*A*(1-c), return = -c*100.    *)
(***************************************************************************)
C21_ConstantPriceClosedForm ==
    \A p \in DailyCloses :
        (Returned /\ DailyConstantCase(p)) =>
            LET net == Mul(Mul(FromInt(Len(data)), amount), Sub(One, commission_rate))
            IN  /\ result.count = Len(data)
                /\ result.shares = Div(net, FromInt(p))
                /\ result.value = net
                /\ result.return = Mul(Sub(Zero, commission_rate), FromInt(100))

\* three or more days at close 3, commission 0.1 %: the return is -0.1 %
C21_Witness ==
    /\ Returned
    /\ DailyConstantCase(3)
    /\ Len(data) >= 3
    /\ commission_rate = Rat(1, 1000)
    /\ result.count = Len(data)
    /\ result.return = Rat(-1, 10)

(***************************************************************************)
(* Granularity detection on its own: series built from up to MaxDeltas     *)
(* consecutive gaps drawn from the values around each threshold, and 0     *)
(* (a repeated timestamp); and long series of SampleSize rows, all at the  *)
(* same instant but for the first and the last gap of the sample, followed *)
(* by up to MaxTail rows that the sample does not reach.                   *)
(***************************************************************************)
GapValues == {0, 44, 45, 46, 89, 90, 91, 1079, 1080, 1081, 2159, 2160, 2161}

GapSeqs == UNION {[1..n -> GapValues] : n \in 0..MaxDeltas}

\* gaps[lo] + ... + gaps[hi], added up by halves
RECURSIVE GapTotal(_, _, _)
GapTotal(gaps, lo, hi) ==
    IF lo > hi THEN 0
    ELSE IF lo = hi THEN gaps[lo]
    ELSE LET mid == (lo + hi) \div 2
         IN  GapTotal(gaps, lo, mid) + GapTotal(gaps, mid + 1, hi)

DateAfterGaps(gaps, i) ==
    Timestamp(FirstYear + 1, 1, 31, 9 * 60 + 30) + GapTotal(gaps, 1, i)

\* the series of Len(gaps) + 1 rows whose consecutive gaps are `gaps`
SeriesOfGaps(gaps) ==
    [i \in 1..(Len(gaps) + 1) |-> [Date |-> DateAfterGaps(gaps, i - 1), Close |-> 1]]

LongGapValues == {0, 30, 7 * MinutesPerDay}

TailGapSeqs == UNION {[1..n -> LongGapValues] : n \in 0..MaxTail}

LongGaps(g, h, tail) ==
    [i \in 1..(SampleSize - 1) |->
        IF i = 1 THEN g ELSE IF i = SampleSize - 1 THEN h ELSE 0] \o tail

LongGapSeqs ==
    {LongGaps(g, h, tail) : g \in LongGapValues, h \in LongGapValues,
                            tail \in TailGapSeqs}

GranInit ==
    /\ \/ data = <<>>
       \/ \E gaps \in GapSeqs \cup LongGapSeqs : data = SeriesOfGaps(gaps)
    /\ frequency = "weekly"
    /\ start = BadDate
    /\ end = BadDate
    /\ amount = Zero
    /\ commission_rate = Zero
    /\ current = 0
    /\ investments = <<>>
    /\ trail = <<>>
    /\ result = NoResult
    /\ granularity = "none"
    /\ base_strategies = <<>>
    /\ strategies = <<>>
    /\ results = <<>>
    /\ summary = NoResult
    /\ sims = <<>>
    /\ gui = NoGui
    /\ workers = <<>>
    /\ pc = "detect"

GranDetect ==
    /\ UNCHANGED <<runVars, restVars>>
    /\ pc = "detect"
    /\ granularity' = DetectGranularity(data)
    /\ pc' = "detected"
    /\ UNCHANGED <<data, start, end, amount, frequency, commission_rate,
                   current, investments, result, trail>>

GranNext == GranDetect

SpecGran == GranInit /\ [][GranNext]_vars

\* the positive gaps among the sampled rows: their sum and their number
SampledRows == 1..Min(100, Len(data))
PositiveGapRows == {i \in SampledRows : i > 1 /\ data[i].Date > data[i - 1].Date}

RECURSIVE GapSum(_)
GapSum(rows) ==
    IF rows = {} THEN 0
    ELSE LET i == CHOOSE r \in rows : TRUE
         IN  (data[i].Date - data[i - 1].Date) + GapSum(rows \ {i})

PositiveGapSum == GapSum(PositiveGapRows)
PositiveGapCount == Cardinality(PositiveGapRows)

\* the mean of the positive gaps is m, is below m
MeanIs(m) == PositiveGapCount > 0 /\ PositiveGapSum = m * PositiveGapCount
MeanBelow(m) == PositiveGapCount > 0 /\ PositiveGapSum < m * PositiveGapCount

(***************************************************************************)
(* C10: the label is decided by the mean m of the strictly positive gaps   *)
(* (zero gaps neither summed nor counted): m < 45 intraday_minute,         *)
(* 45 <= m < 90 intraday_hourly, 90 <= m < 1080 intraday_half_day,         *)
(* 1080 <= m < 2160 daily, m >= 2160 daily_plus; means of 44, 45, 89, 90,  *)
(* 1079, 1080, 2159, 2160 fall on these sides.                             *)
(***************************************************************************)
C10_GranularityThresholds ==
    (pc = "detected" /\ PositiveGapCount > 0) =>
        /\ granularity = "intraday_minute" <=> MeanBelow(45)
        /\ granularity = "intraday_hourly" <=> (~MeanBelow(45) /\ MeanBelow(90))
        /\ granularity = "intraday_half_day" <=> (~MeanBelow(90) /\ MeanBelow(1080))
        /\ granularity = "daily" <=> (~MeanBelow(1080) /\ MeanBelow(2160))
        /\ granularity = "daily_plus" <=> ~MeanBelow(2160)
        /\ MeanIs(44) => granularity = "intraday_minute"
        /\ MeanIs(45) => granularity = "intraday_hourly"
        /\ MeanIs(89) => granularity = "intraday_hourly"
        /\ MeanIs(90) => granularity = "intraday_half_day"
        /\ MeanIs(1079) => granularity = "intraday_half_day"
        /\ MeanIs(1080) => granularity = "daily"
        /\ MeanIs(2159) => granularity = "daily"
        /\ MeanIs(2160) => granularity = "daily_plus"

\* gaps 44, 0, 46: the zero gap is left out, the mean is exactly 45
C10_Witness ==
    /\ pc = "detected"
    /\ Len(data) = 4
    /\ \E i \in 2..Len(data) : data[i].Date = data[i - 1].Date
    /\ PositiveGapCount = 2
    /\ MeanIs(45)
    /\ granularity = "intraday_hourly"

(***************************************************************************)
(* C11: the label is unknown if and only if no gap between consecutive     *)
(* rows among the first min(100, length) rows is strictly positive; so     *)
(* for every series of fewer than 2 rows and for every sample whose rows   *)
(* all carry the same timestamp.                                           *)
(***************************************************************************)
C11_UnknownIffNoPositiveDelta ==
    (pc = "detected") =>
        /\ granularity = "unknown" <=> PositiveGapRows = {}
        /\ Len(data) < 2 => granularity = "unknown"
        /\ (\A i \in SampledRows : data[i].Date = data[1].Date)
               => granularity = "unknown"

\* 100 rows at one instant, then a later row: the only positive gap lies
\* outside the sample
C11_Witness ==
    /\ pc = "detected"
    /\ Len(data) > 100
    /\ data[100].Date = data[1].Date
    /\ data[101].Date > data[100].Date
    /\ granularity = "unknown"

(***************************************************************************)
(* C12: the label depends only on the first min(100, length) rows: a       *)
(* series that has the same first 100 rows and any rows after them gets    *)
(* the same label, and so does the sample alone.                           *)
(***************************************************************************)
SamplePrefix == SubSeq(data, 1, Min(100, Len(data)))

\* the rows that follow a last row at time t at the given gaps
RowsAfter(t, gaps) ==
    [i \in 1..Len(gaps) |-> [Date |-> RunDateAfterGaps(t, gaps, i), Close |-> 1]]

C12_LabelDependsOnSampleOnly ==
    (pc = "detected" /\ Len(data) >= 100) =>
        /\ granularity = DetectGranularity(SamplePrefix)
        /\ \A tail \in TailGapSeqs :
               DetectGranularity(SamplePrefix \o RowsAfter(data[100].Date, tail))
                   = granularity

\* a sample with mean gap 30 followed by a row a week later: counting that
\* gap would move the mean from 30 to 3370 minutes
C12_Witness ==
    /\ pc = "detected"
    /\ Len(data) > 100
    /\ PositiveGapCount = 2
    /\ MeanIs(30)
    /\ data[101].Date - data[100].Date = 7 * MinutesPerDay
    /\ granularity = "intraday_minute"

(***************************************************************************)
(* C9: in a comparison run a failure of one strategy's simulation does     *)
(* not abort the run: the caller obtains one outcome for every strategy    *)
(* of the list, and best / worst are taken among the valid results only.   *)
(* Stated for well-formed date arguments, so that the failures in question *)
(* are those of the simulation itself.                                     *)
(***************************************************************************)
C9_FailureDoesNotAbortRun ==
    (pc = "run_done" /\ strategies # <<>> /\ start # BadDate) =>
        /\ summary.kind # "raise"
        /\ Len(results) = Len(strategies)
        /\ summary.kind = "summary" =>
               /\ IsFinite(results[summary.best].result.return)
               /\ IsFinite(results[summary.worst].result.return)

(***************************************************************************)
(* C19: for a fixed series and end date the final price is the same for    *)
(* every frequency, amount and start date: in a comparison run every       *)
(* result carries the close of the last row at or before the end date, so  *)
(* the final price of the first result is that of every other result.      *)
(***************************************************************************)
RunLatestUpToEnd ==
    CHOOSE i \in 1..Len(data) :
        /\ data[i].Date <= RunEnd.t
        /\ \A j \in 1..Len(data) : data[j].Date <= RunEnd.t => j <= i

C19_SameFinalPrice ==
    (pc \in {"run_simulate", "run_rank", "run_done"}) =>
        /\ \A i \in 1..Len(results) :
               /\ results[i].result.final_price = results[1].result.final_price
               /\ results[i].result.final_price =
                      FromInt(data[RunLatestUpToEnd].Close)
        /\ summary.kind = "summary" =>
               \A i \in 1..Len(results) :
                   summary.final_price = results[i].result.final_price

\* a run from a start date after the first row, over changing prices, whose
\* strategies make different numbers of contributions
C19_Witness ==
    /\ pc = "run_done"
    /\ summary.kind = "summary"
    /\ start.valid
    /\ start.t > data[1].Date
    /\ data[1].Close # data[Len(data)].Close
    /\ \E i, j \in 1..Len(results) :
           results[i].result.count # results[j].result.count

(***************************************************************************)
(* Ranking on its own: lists of 1 to MaxResults results whose returns are  *)
(* drawn from three values, so that the extremes occur more than once.     *)
(***************************************************************************)
ReturnValues == {-2, 0, 5}

\* a result with return percentage v: one contribution of 1 bought at 1,
\* without commission, valued at 1 + v / 100
RankResult(v) ==
    [kind |-> "return",
     count |-> 1,
     invested |-> One,
     commission |-> Zero,
     shares |-> One,
     value |-> Rat(100 + v, 100),
     return |-> FromInt(v),
     final_price |-> Rat(100 + v, 100)]

RankResults(returns) ==
    [i \in 1..Len(returns) |->
        [name |-> StrategiesFor("intraday_minute")[i].name,
         result |-> RankResult(returns[i])]]

RankInit ==
    /\ \E n \in 1..MaxResults : \E returns \in [1..n -> ReturnValues] :
           results = RankResults(returns)
    /\ data = <<>>
    /\ start = None
    /\ end = None
    /\ frequency = "weekly"
    /\ amount = Zero
    /\ commission_rate = Rat(1, 1000)
    /\ current = 0
    /\ investments = <<>>
    /\ trail = <<>>
    /\ result = NoResult
    /\ granularity = "none"
    /\ base_strategies = <<>>
    /\ strategies = <<>>
    /\ summary = NoResult
    /\ sims = <<>>
    /\ gui = NoGui
    /\ workers = <<>>
    /\ pc = "run_rank"

RankNext == RunRank

SpecRank == RankInit /\ [][RankNext]_vars

ReturnOf(i) == results[i].result.return
ReturnsAre(returns) ==
    /\ Len(results) = Len(returns)
    /\ \A i \in 1..Len(returns) : ReturnOf(i) = FromInt(returns[i])

(***************************************************************************)
(* C20: best is the first entry, in input order, whose return equals the   *)
(* maximum and worst the first entry whose return equals the minimum (for  *)
(* returns 5, -2, 5 best is the first entry); the spread, best minus       *)
(* worst, is never negative.                                               *)
(***************************************************************************)
C20_RankFirstOccurrence ==
    (pc = "run_done" /\ summary.kind = "summary") =>
        /\ summary.best \in 1..Len(results)
        /\ summary.worst \in 1..Len(results)
        /\ \A i \in 1..Len(results) :
               /\ ~Less(ReturnOf(summary.best), ReturnOf(i))
               /\ ~Less(ReturnOf(i), ReturnOf(summary.worst))
        /\ \A i \in 1..(summary.best - 1) : ReturnOf(i) # ReturnOf(summary.best)
        /\ \A i \in 1..(summary.worst - 1) : ReturnOf(i) # ReturnOf(summary.worst)
        /\ summary.spread = Sub(ReturnOf(summary.best), ReturnOf(summary.worst))
        /\ ~Less(summary.spread, Zero)
        /\ ReturnsAre(<<5, -2, 5>>) => summary.best = 1

C20_Witness ==
    /\ pc = "run_done"
    /\ ReturnsAre(<<5, -2, 5>>)
    /\ summary.kind = "summary"
    /\ summary.best = 1
    /\ summary.worst = 2
    /\ summary.spread = FromInt(7)

(***************************************************************************)
(* The cursor step on its own: every calendar day of FirstYear..LastYear   *)
(* at three times of day, stepped up to MaxSteps times by each frequency.  *)
(***************************************************************************)
StepYears == FirstYear..LastYear

TimesOfDay == {0, 9 * 60 + 30, 23 * 60 + 30}

CalendarInstants ==
    UNION {{Timestamp(y, m, d, tod) : d \in 1..DaysInMonth(y, m)} :
              y \in StepYears, m \in 1..12, tod \in TimesOfDay}

StepInit ==
    /\ frequency \in Frequencies
    /\ start \in CalendarInstants
    /\ current = start
    /\ investments = <<>>
    /\ trail = <<>>
    /\ data = <<>>
    /\ end = start
    /\ amount = Zero
    /\ commission_rate = Zero
    /\ result = NoResult
    /\ granularity = "none"
    /\ base_strategies = <<>>
    /\ strategies = <<>>
    /\ results = <<>>
    /\ summary = NoResult
    /\ sims = <<>>
    /\ gui = NoGui
    /\ workers = <<>>
    /\ pc = "step"

StepAdvance ==
    /\ UNCHANGED <<runVars, restVars>>
    /\ pc = "step"
    /\ Len(trail) < MaxSteps
    /\ current' = AdvanceCursor(current, frequency)
    /\ trail' = Append(trail, current)
    /\ UNCHANGED <<data, start, end, amount, frequency, commission_rate,
                   investments, result, granularity, pc>>

StepNext == StepAdvance

SpecStep == StepInit /\ [][StepNext]_vars

\* the cursor value the last step started from
Stepped == Len(trail) > 0
StepFrom == trail[Len(trail)]

\* the calendar month reached by adding k months to the month of t
TargetYear(t, k) == IF MonthOf(t) + k > 12 THEN YearOf(t) + 1 ELSE YearOf(t)
TargetMonth(t, k) == IF MonthOf(t) + k > 12 THEN MonthOf(t) + k - 12 ELSE MonthOf(t) + k

\* current is t moved by k calendar months, day kept when it exists there,
\* day 1 otherwise, time of day kept
MovedByMonths(t, k) ==
    /\ YearOf(current) = TargetYear(t, k)
    /\ MonthOf(current) = TargetMonth(t, k)
    /\ DayOf(current) = IF DayOf(t) <= DaysInMonth(TargetYear(t, k), TargetMonth(t, k))
                        THEN DayOf(t) ELSE 1
    /\ MinuteOfDay(current) = MinuteOfDay(t)

(***************************************************************************)
(* C2: a monthly step goes to the same day and time of the next calendar   *)
(* month (December to January of the next year); when that day does not    *)
(* exist there the cursor becomes day 1 of that month, so the 31st of a    *)
(* month followed by a shorter month steps to day 1 of the next month.     *)
(***************************************************************************)
C2_MonthlyStep ==
    (Stepped /\ frequency = "monthly") =>
        /\ MovedByMonths(StepFrom, 1)
        /\ MonthOf(current) = (MonthOf(StepFrom) % 12) + 1
        /\ (MonthOf(StepFrom) = 12) => (YearOf(current) = YearOf(StepFrom) + 1)
        /\ (DayOf(StepFrom) = 31 /\ DaysInMonth(YearOf(current), MonthOf(current)) < 31)
                => DayOf(current) = 1

\* 31 December -> 31 January (year carried) -> 1 February (clamped)
C2_Witness ==
    /\ frequency = "monthly"
    /\ Len(trail) = 2
    /\ MonthOf(trail[1]) = 12 /\ DayOf(trail[1]) = 31
    /\ MonthOf(trail[2]) = 1 /\ DayOf(trail[2]) = 31
    /\ YearOf(trail[2]) = YearOf(trail[1]) + 1
    /\ MonthOf(current) = 2 /\ DayOf(current) = 1

(***************************************************************************)
(* C3: a quarterly (k = 3) or semiannual (k = 6) step adds k calendar      *)
(* months, carrying into the next year when month + k > 12; the day is     *)
(* kept when valid in the target month and is 1 otherwise.                 *)
(***************************************************************************)
C3_QuarterlySemiannualStep ==
    /\ (Stepped /\ frequency = "quarterly") => MovedByMonths(StepFrom, 3)
    /\ (Stepped /\ frequency = "semiannually") => MovedByMonths(StepFrom, 6)

\* 30 November + 3 months: February of the next year, clamped to day 1
C3_Witness ==
    /\ Stepped
    /\ frequency = "quarterly"
    /\ MonthOf(StepFrom) = 11 /\ DayOf(StepFrom) = 30
    /\ YearOf(current) = YearOf(StepFrom) + 1
    /\ MonthOf(current) = 2 /\ DayOf(current) = 1

(***************************************************************************)
(* C4: a yearly step keeps month, day and time and adds 1 to the year;     *)
(* only 29 February is invalid in the next year, and it becomes            *)
(* 1 February of the next year.                                            *)
(***************************************************************************)
C4_YearlyStep ==
    (Stepped /\ frequency = "yearly") =>
        /\ YearOf(current) = YearOf(StepFrom) + 1
        /\ MonthOf(current) = MonthOf(StepFrom)
        /\ MinuteOfDay(current) = MinuteOfDay(StepFrom)
        /\ DayOf(current) = IF MonthOf(StepFrom) = 2 /\ DayOf(StepFrom) = 29
                            THEN 1 ELSE DayOf(StepFrom)

C4_Witness ==
    /\ Stepped
    /\ frequency = "yearly"
    /\ MonthOf(StepFrom) = 2 /\ DayOf(StepFrom) = 29
    /\ MonthOf(current) = 2 /\ DayOf(current) = 1
    /\ YearOf(current) = YearOf(StepFrom) + 1

(***************************************************************************)
(* C5: each of the eight fixed-duration codes adds exactly its duration    *)
(* (30 min, 1 h, 3 h, 6 h, 12 h, 1 day, 3 days, 7 days) to the cursor,     *)
(* whatever the calendar date.                                             *)
(***************************************************************************)
C5_FixedDurationStep ==
    Stepped =>
        /\ (frequency = "halfhourly") => (current - StepFrom = 30)
        /\ (frequency = "hourly") => (current - StepFrom = 60)
        /\ (frequency = "3hourly") => (current - StepFrom = 180)
        /\ (frequency = "6hourly") => (current - StepFrom = 360)
        /\ (frequency = "12hourly") => (current - StepFrom = 720)
        /\ (frequency = "daily") => (current - StepFrom = 1440)
        /\ (frequency = "3daily") => (current - StepFrom = 4320)
        /\ (frequency = "weekly") => (current - StepFrom = 10080)

\* three days from 27 February of a leap year at 23:30: 1 March, 23:30
C5_Witness ==
    /\ Stepped
    /\ frequency = "3daily"
    /\ IsLeap(YearOf(StepFrom))
    /\ MonthOf(StepFrom) = 2 /\ DayOf(StepFrom) = 27
    /\ MinuteOfDay(StepFrom) = 23 * 60 + 30
    /\ MonthOf(current) = 3 /\ DayOf(current) = 1
    /\ MinuteOfDay(current) = 23 * 60 + 30

(***************************************************************************)
(* C26: along a monthly, quarterly, semiannual or yearly schedule the time *)
(* of day of the cursor never changes and its day of month is that of the  *)
(* start or 1; from a cursor value on day 1 on, every later value is on    *)
(* day 1, so a clamped step never gets the original day back.              *)
(***************************************************************************)
C26_CalendarSchedule ==
    (pc = "step" /\ frequency \in CalendarFrequencies) =>
        /\ \A k \in 1..Len(Cursors) :
               /\ MinuteOfDay(Cursors[k]) = MinuteOfDay(start)
               /\ DayOf(Cursors[k]) \in {DayOf(start), 1}
        /\ \A k \in 1..Len(Cursors) : \A j \in k..Len(Cursors) :
               DayOf(Cursors[k]) = 1 => DayOf(Cursors[j]) = 1

\* 29 February 2024 23:30 -> 1 February 2025 (clamped) -> 1 February 2026
C26_Witness ==
    /\ pc = "step"
    /\ frequency = "yearly"
    /\ Len(trail) = 2
    /\ MonthOf(start) = 2 /\ DayOf(start) = 29
    /\ MinuteOfDay(start) = 23 * 60 + 30
    /\ DayOf(trail[2]) = 1 /\ YearOf(trail[2]) = YearOf(start) + 1
    /\ MonthOf(current) = 2 /\ DayOf(current) = 1
    /\ YearOf(current) = YearOf(start) + 2
    /\ MinuteOfDay(current) = 23 * 60 + 30

(***************************************************************************)
(* Two simulations of one comparison run executed concurrently: each call  *)
(* of simulate_investment has its own locals (current, investments) and    *)
(* shares data, start, end and commission_rate with the other; the steps   *)
(* of the two calls interleave in any order.                               *)
(***************************************************************************)
\* the locals of a call of simulate_investment for one strategy
NewSim(strategy) ==
    [strategy |-> strategy, pc |-> "call", current |-> 0,
     investments |-> <<>>, result |-> NoResult]

\* a variant in which the calls share their locals
LocalsShared(ss, i, locals) ==
    [k \in DOMAIN ss |-> [locals EXCEPT !.strategy = ss[k].strategy]]

\* the locals of call i are assigned; those of the other calls are not
Locals(ss, i, locals) == [ss EXCEPT ![i] = locals]

ParStartArgs == {None, DateInput(RunDay + MinutesPerDay)}
ParEndArgs == {None, DateInput(RunDay - MinutesPerDay)}

\* the state of run after lines 247-276, two strategies of the list chosen
ParInit ==
    /\ \E tod \in RunFirstTimes, gaps \in RunGapSeqs :
           data = RunSeries(RunDay + tod, gaps, "rising")
    /\ start \in ParStartArgs
    /\ end \in ParEndArgs
    /\ commission_rate = Rat(1, 1000)
    /\ granularity = DetectGranularity(data)
    /\ base_strategies = StrategiesFor(granularity)
    /\ strategies = SelectDisplaySet(base_strategies)
    /\ \E i \in 1..(Len(strategies) - 1) :
           sims = <<NewSim(strategies[i]), NewSim(strategies[i + 1])>>
    /\ frequency = "weekly"
    /\ amount = Zero
    /\ current = 0
    /\ investments = <<>>
    /\ trail = <<>>
    /\ result = NoResult
    /\ results = <<>>
    /\ summary = NoResult
    /\ gui = NoGui
    /\ workers = <<>>
    /\ pc = "par"

nonSimVars == <<data, start, end, amount, frequency, commission_rate, current,
                investments, result, trail, granularity, runVars, gui, workers,
                pc>>

\* lines 158-160 of call i
SimEnter ==
    /\ pc = "par"
    /\ \E i \in 1..Len(sims) :
           /\ sims[i].pc = "call"
           /\ sims' = Locals(sims, i,
                  IF ToDatetime(RunStart).ok /\ ToDatetime(RunEnd).ok
                  THEN [sims[i] EXCEPT !.current = ToDatetime(RunStart).value,
                                       !.pc = "loop"]
                  ELSE [sims[i] EXCEPT !.result = Raise("ValueError"),
                                       !.pc = "done"])
    /\ UNCHANGED nonSimVars

\* lines 162-228 of call i: one iteration that records a contribution
SimLoopBody ==
    /\ pc = "par"
    /\ \E i \in 1..Len(sims) :
           LET available == Available(data, sims[i].current)
           IN  /\ sims[i].pc = "loop"
               /\ sims[i].current <= ToDatetime(RunEnd).value
               /\ available # <<>>
               /\ available[1].Date <= ToDatetime(RunEnd).value
               /\ sims' = Locals(sims, i,
                      [sims[i] EXCEPT
                          !.investments =
                              Append(@, Investment(sims[i].strategy.amount,
                                                   commission_rate,
                                                   available[1].Close)),
                          !.current = AdvanceCursor(@, sims[i].strategy.freq)])
    /\ UNCHANGED nonSimVars

\* lines 162-165 of call i: the while condition fails, or break
SimLoopEnd ==
    /\ pc = "par"
    /\ \E i \in 1..Len(sims) :
           LET available == Available(data, sims[i].current)
           IN  /\ sims[i].pc = "loop"
               /\ IF sims[i].current > ToDatetime(RunEnd).value THEN TRUE
                  ELSE IF available = <<>> THEN TRUE
                  ELSE available[1].Date > ToDatetime(RunEnd).value
               /\ sims' = Locals(sims, i, [sims[i] EXCEPT !.pc = "after"])
    /\ UNCHANGED nonSimVars

\* lines 230-243 of call i
SimFinish ==
    /\ pc = "par"
    /\ \E i \in 1..Len(sims) :
           /\ sims[i].pc = "after"
           /\ sims' = Locals(sims, i,
                  [sims[i] EXCEPT
                      !.result = Finalize(data, ToDatetime(RunEnd).value,
                                          sims[i].strategy.amount,
                                          sims[i].investments),
                      !.pc = "done"])
    /\ UNCHANGED nonSimVars

ParNext == SimEnter \/ SimLoopBody \/ SimLoopEnd \/ SimFinish

SpecPar == ParInit /\ [][ParNext]_vars

(***************************************************************************)
(* C22: whatever the order in which the steps of the simulations of one    *)
(* run interleave, each simulation ends with the result that the           *)
(* simulation of its strategy gives when executed alone, as in the         *)
(* sequential run; the series and the commission rate are only read.       *)
(***************************************************************************)
C22_OrderIndependent ==
    (pc = "par") =>
        \A i \in 1..Len(sims) :
            (sims[i].pc = "done") =>
                sims[i].result =
                    Simulate(data, RunStart, RunEnd, sims[i].strategy.amount,
                             sims[i].strategy.freq, commission_rate)

\* the later strategy of the list has returned while the earlier one is in
\* the middle of its loop
C22_Witness ==
    /\ pc = "par"
    /\ sims[2].pc = "done"
    /\ sims[2].result.kind = "return"
    /\ sims[2].result.count >= 1
    /\ sims[1].pc = "loop"
    /\ Len(sims[1].investments) >= 1
    /\ sims[1].current <= ToDatetime(RunEnd).value

(***************************************************************************)
(* The download window of src/stock_gui_qt6.py (EnhancedStockGUI) and its  *)
(* DownloadWorker threads.  A handler of the window runs to completion in  *)
(* the GUI thread; a button handler runs only while its button is enabled. *)
(* A worker is running from start() until it emits its finished signal;    *)
(* download_result signals are delivered as they are emitted.  The form    *)
(* holds 0 to MaxSymbols symbols and at most MaxWorkers workers are        *)
(* created.                                                                *)
(***************************************************************************)
NoWorker == 0

\* DownloadWorker.__init__ followed by start()
NewWorker(symbols) ==
    [symbols |-> symbols, downloaded |-> 0, stop_flag |-> FALSE,
     state |-> "running", success |-> FALSE]

\* EnhancedStockGUI.__init__ and setup_control_buttons
GuiInit ==
    /\ gui = [download_btn |-> TRUE, stop_btn |-> FALSE, retry_btn |-> FALSE,
              stock_text |-> 0, failed |-> 0, stop_flag |-> FALSE,
              download_worker |-> NoWorker]
    /\ workers = <<>>
    /\ sims = <<>>
    /\ data = <<>>
    /\ start = None
    /\ end = None
    /\ frequency = "weekly"
    /\ amount = Zero
    /\ commission_rate = Zero
    /\ current = 0
    /\ investments = <<>>
    /\ trail = <<>>
    /\ result = NoResult
    /\ granularity = "none"
    /\ base_strategies = <<>>
    /\ strategies = <<>>
    /\ results = <<>>
    /\ summary = NoResult
    /\ pc = "gui"

nonGuiVars == <<data, start, end, amount, frequency, commission_rate, current,
             investments, result, trail, granularity, runVars, sims, pc>>

\* the user edits the list of symbols
EditStockText ==
    /\ pc = "gui"
    /\ \E n \in 0..MaxSymbols :
           /\ n # gui.stock_text
           /\ gui' = [gui EXCEPT !.stock_text = n]
    /\ UNCHANGED <<workers, nonGuiVars>>

\* lines 1097-1170, the dates and the output directory being valid; with no
\* symbol in the form the handler returns after a warning
start_download ==
    /\ pc = "gui"
    /\ gui.download_btn
    /\ gui.stock_text > 0
    /\ Len(workers) < MaxWorkers
    /\ workers' = Append(workers, NewWorker(gui.stock_text))
    /\ gui' = [gui EXCEPT !.stop_flag = FALSE,
                          !.download_btn = FALSE,
                          !.stop_btn = TRUE,
                          !.download_worker = Len(workers) + 1,
                          !.failed = 0]
    /\ UNCHANGED nonGuiVars

\* lines 1172-1176
stop_download ==
    /\ pc = "gui"
    /\ gui.stop_btn
    /\ IF gui.download_worker # NoWorker
       THEN /\ gui' = [gui EXCEPT !.stop_flag = TRUE]
            /\ workers' = [workers EXCEPT ![gui.download_worker].stop_flag = TRUE]
       ELSE UNCHANGED <<gui, workers>>
    /\ UNCHANGED nonGuiVars

\* DownloadWorker.run, lines 73-104: one symbol is downloaded or fails, and
\* track_download_result (lines 1183-1188) records the outcome
WorkerDownload ==
    /\ pc = "gui"
    /\ \E w \in 1..Len(workers) :
           /\ workers[w].state = "running"
           /\ ~workers[w].stop_flag
           /\ workers[w].downloaded < workers[w].symbols
           /\ workers' = [workers EXCEPT ![w].downloaded = @ + 1]
    /\ \E ok \in BOOLEAN :
           gui' = [gui EXCEPT !.failed = IF ok THEN @ ELSE @ + 1]
    /\ UNCHANGED nonGuiVars

\* DownloadWorker.run, lines 74-75 and 106-116: the loop is over or was
\* stopped, and finished is emitted
WorkerFinish ==
    /\ pc = "gui"
    /\ \E w \in 1..Len(workers) :
           /\ workers[w].state = "running"
           /\ workers[w].stop_flag \/ workers[w].downloaded = workers[w].symbols
           /\ workers' = [workers EXCEPT ![w].state = "finished",
                                         ![w].success = ~workers[w].stop_flag]
    /\ UNCHANGED <<gui, nonGuiVars>>

\* lines 1190-1223, run for the finished signal of a worker
download_finished ==
    /\ pc = "gui"
    /\ \E w \in 1..Len(workers) :
           /\ workers[w].state = "finished"
           /\ workers' = [workers EXCEPT ![w].state = "over"]
    /\ gui' = [gui EXCEPT !.download_btn = TRUE,
                          !.stop_btn = FALSE,
                          !.retry_btn = IF gui.failed > 0 THEN TRUE ELSE @,
                          !.download_worker = NoWorker]
    /\ UNCHANGED nonGuiVars

\* lines 1225-1290, the user confirming; with no failed item the handler
\* returns after a message
retry_failed ==
    /\ pc = "gui"
    /\ gui.retry_btn
    /\ gui.failed > 0
    /\ Len(workers) < MaxWorkers
    /\ workers' = Append(workers, NewWorker(gui.failed))
    /\ gui' = [gui EXCEPT !.failed = 0,
                          !.retry_btn = FALSE,
                          !.download_btn = FALSE,
                          !.stop_btn = TRUE,
                          !.download_worker = Len(workers) + 1]
    /\ UNCHANGED nonGuiVars

\* lines 1083-1091
clear_form ==
    /\ pc = "gui"
    /\ gui' = [gui EXCEPT !.stock_text = 0, !.failed = 0, !.retry_btn = FALSE]
    /\ UNCHANGED <<workers, nonGuiVars>>

GuiNext ==
    \/ EditStockText
    \/ start_download
    \/ stop_download
    \/ retry_failed
    \/ clear_form
    \/ WorkerDownload
    \/ WorkerFinish
    \/ download_finished

SpecGui == GuiInit /\ [][GuiNext]_vars

RunningWorkers == {w \in 1..Len(workers) : workers[w].state = "running"}

(***************************************************************************)
(* C30: after any sequence of start-download, stop, retry-failed,          *)
(* clear-form and worker-finished events at most one DownloadWorker is     *)
(* running.                                                                *)
(***************************************************************************)
C30_AtMostOneWorkerRunning ==
    (pc = "gui") => Cardinality(RunningWorkers) <= 1

====
